---------------------------- MODULE Spec2Model ----------------------------
(***************************************************************************)
(* Model of parse_nfc_dump.py: format selection (__main__), the two dump   *)
(* adapters (parse_flipper_dump, parse_proxmark_dump) and the block        *)
(* decoder (print_parsed).                                                 *)
(*                                                                         *)
(* Representation.  A Python str is the sequence of its code points        *)
(* (integers); a byte slot of a block is <<v>> for the integer v and <<>>  *)
(* for None (the "unknown" slot); a Python dict is a TLA+ function; a      *)
(* helper that can raise returns a record [ok, val, exc].                  *)
(***************************************************************************)
EXTENDS Integers, Sequences, FiniteSets, TLC

VARIABLES
    pc,             \* position in the program
    args,           \* argparse result: [format, filepath]
    file,           \* the dump file: [decodable, lines, json, raw]
    fmt,            \* __main__'s fmt
    invoked,        \* the parsers __main__ has called, in order
    header,         \* the adapter's header dict
    blocks,         \* the adapter's blocks dict
    n,              \* the adapter's loop position
    colors_map,     \* the colour table handed to print_parsed
    filament_type,  \* print_parsed's filament_type
    out,            \* the lines print_parsed has printed, as field records
    exc             \* the exception that ended the program, "" when none

vars == <<pc, args, file, fmt, invoked, header, blocks, n, colors_map,
          filament_type, out, exc>>

---------------------------------------------------------------------------
(* Python values *)

None == <<>>
Some(v) == <<v>>
NoFormat == "None"
EmptyDict == [k \in {} |-> 0]
\* what json.load makes of a file: kind is "invalid" (JSONDecodeError), "other"
\* (a JSON value that is no object) or "object" with its Card and, in file
\* order, its blocks entries <<key, value>>
NotJson == [kind |-> "invalid", Card |-> EmptyDict, blocks |-> <<>>]
NoFile == [decodable |-> TRUE, lines |-> <<>>, json |-> NotJson, raw |-> <<>>]

Ok(v) == [ok |-> TRUE, val |-> v, exc |-> ""]
Raise(e) == [ok |-> FALSE, val |-> 0, exc |-> e]

\* a result whose value, when there is one, becomes a known slot
SomeResult(r) == IF r.ok THEN Ok(Some(r.val)) ELSE r

Put(d, k, v) == [x \in (DOMAIN d) \cup {k} |-> IF x = k THEN v ELSE d[x]]

Min(a, b) == IF a < b THEN a ELSE b
Max(a, b) == IF a > b THEN a ELSE b

\* s[a:b] for 0 <= a, b (Python slice, 0-based, clipped to the length)
Slice(s, a, b) ==
    LET hi == Min(b, Len(s))
    IN  IF a >= hi THEN <<>> ELSE [k \in 1..(hi - a) |-> s[a + k]]

\* s[a:]
SliceFrom(s, a) == Slice(s, a, Len(s))

\* needle in s
Contains(s, needle) ==
    \E k \in 0..(Len(s) - Len(needle)) : Slice(s, k, k + Len(needle)) = needle

\* s.startswith(prefix)
StartsWith(s, prefix) == Slice(s, 0, Len(prefix)) = prefix

\* s.rfind(c) for a single character, 0-based, -1 when absent
RFind(s, c) ==
    LET hits == {k \in 1..Len(s) : s[k] = c}
    IN  IF hits = {} THEN -1 ELSE (CHOOSE k \in hits : \A j \in hits : j <= k) - 1

\* s.find(c) for a single character, 0-based, -1 when absent
Find(s, c) ==
    LET hits == {k \in 1..Len(s) : s[k] = c}
    IN  IF hits = {} THEN -1 ELSE (CHOOSE k \in hits : \A j \in hits : k <= j) - 1

\* s.lower()
Lower(s) == [k \in 1..Len(s) |-> IF s[k] >= 65 /\ s[k] <= 90 THEN s[k] + 32 ELSE s[k]]

\* characters str.strip() and str.split() treat as whitespace (ASCII)
Whitespace == {9, 10, 11, 12, 13, 28, 29, 30, 31, 32}

\* s.lstrip()
LStrip(s) ==
    LET keep == {k \in 1..Len(s) : s[k] \notin Whitespace}
    IN  IF keep = {} THEN <<>>
        ELSE SubSeq(s, CHOOSE k \in keep : \A j \in keep : k <= j, Len(s))

\* s.rstrip()
RStrip(s) ==
    LET keep == {k \in 1..Len(s) : s[k] \notin Whitespace}
    IN  IF keep = {} THEN <<>>
        ELSE SubSeq(s, 1, CHOOSE k \in keep : \A j \in keep : j <= k)

\* s.strip()
Strip(s) == LStrip(RStrip(s))

---------------------------------------------------------------------------
(* __main__: format selection, lines 273-289 *)

FlipperMarker == <<70, 108, 105, 112, 112, 101, 114, 32, 78, 70, 67, 32,
                   100, 101, 118, 105, 99, 101>>     \* "Flipper NFC device"
ExtBin == <<46, 98, 105, 110>>                       \* ".bin"
ExtJson == <<46, 106, 115, 111, 110>>                \* ".json"

\* os.path.splitext(p)[1]
SplitExt(p) ==
    LET sepIndex == RFind(p, 47)
        dotIndex == RFind(p, 46)
    IN  IF dotIndex > sepIndex
           /\ \E k \in (sepIndex + 1)..(dotIndex - 1) : p[k + 1] # 46
        THEN SliceFrom(p, dotIndex)
        ELSE <<>>

\* f.readline() of the file opened in text mode
ReadFirstLine(f) ==
    IF ~f.decodable THEN Raise("UnicodeDecodeError")
    ELSE IF f.lines = <<>> THEN Ok(<<>>)
    ELSE Ok(f.lines[1])

\* lines 275-281: the sniff of the first line
SniffedFormat(f) ==
    LET first == ReadFirstLine(f)
    IN  IF ~first.ok THEN NoFormat
        ELSE IF Contains(first.val, FlipperMarker) THEN "flipper"
        ELSE NoFormat

\* lines 283-284: the choice by extension
ExtensionFormat(p) ==
    LET ext == Lower(SplitExt(p))
    IN  IF ext \in {ExtBin, ExtJson} THEN "proxmark" ELSE "flipper"

\* line 273: fmt = args.format
TakeOverride ==
    /\ pc = "main"
    /\ fmt' = args.format
    /\ pc' = IF args.format = NoFormat THEN "sniff" ELSE "dispatch"
    /\ UNCHANGED <<args, file, invoked, header, blocks, n, colors_map,
                   filament_type, out, exc>>

\* lines 274-281
SniffFirstLine ==
    /\ pc = "sniff"
    /\ fmt' = SniffedFormat(file)
    /\ pc' = "extension"
    /\ UNCHANGED <<args, file, invoked, header, blocks, n, colors_map,
                   filament_type, out, exc>>

\* SelectByExtension without the guard of line 282
SelectByExtension_Unguarded ==
    /\ pc = "extension"
    /\ fmt' = ExtensionFormat(args.filepath)
    /\ pc' = "dispatch"
    /\ UNCHANGED <<args, file, invoked, header, blocks, n, colors_map,
                   filament_type, out, exc>>

\* lines 282-284
SelectByExtension ==
    /\ pc = "extension"
    /\ fmt' = IF fmt = NoFormat THEN ExtensionFormat(args.filepath) ELSE fmt
    /\ pc' = "dispatch"
    /\ UNCHANGED <<args, file, invoked, header, blocks, n, colors_map,
                   filament_type, out, exc>>

\* lines 286-289
Dispatch ==
    /\ pc = "dispatch"
    /\ invoked' = Append(invoked,
                         IF fmt = "proxmark" THEN "parse_proxmark_dump"
                                             ELSE "parse_flipper_dump")
    /\ pc' = IF fmt = "proxmark" THEN "proxmark" ELSE "flipper"
    /\ UNCHANGED <<args, file, fmt, header, blocks, n, colors_map,
                   filament_type, out, exc>>

\* argparse's choices for --format, line 254, and no --format
Formats == {NoFormat, "flipper", "proxmark"}

\* dump paths
Paths == {
    <<100, 46, 98, 105, 110>>,                      \* "d.bin"
    <<100, 46, 106, 115, 111, 110>>,                \* "d.json"
    <<100, 46, 66, 73, 78>>,                        \* "d.BIN"
    <<100, 46, 74, 115, 111, 110>>,                 \* "d.Json"
    <<100, 46, 110, 102, 99>>,                      \* "d.nfc"
    <<100>>,                                        \* "d"
    <<46, 98, 105, 110>>,                           \* ".bin"
    <<97, 46, 98, 105, 110, 47, 100>>,              \* "a.bin/d"
    <<100, 46, 106, 115, 111, 110, 46, 110, 102, 99>>,  \* "d.json.nfc"
    <<100, 46, 110, 102, 99, 46, 98, 105, 110>>     \* "d.nfc.bin"
}

\* first lines of dump files
FirstLines == {
    <<70, 105, 108, 101, 116, 121, 112, 101, 58, 32, 70, 108, 105, 112, 112,
      101, 114, 32, 78, 70, 67, 32, 100, 101, 118, 105, 99, 101>>,
                                                    \* "Filetype: Flipper NFC device"
    <<70, 108, 105, 112, 112, 101, 114, 32, 78, 70, 67, 32, 100, 101, 118,
      105, 99, 101, 10>>,                           \* "Flipper NFC device\n"
    <<102, 108, 105, 112, 112, 101, 114, 32, 110, 102, 99, 32, 100, 101, 118,
      105, 99, 101>>,                               \* "flipper nfc device"
    <<70, 108, 105, 112, 112, 101, 114, 32, 78, 70, 67>>,  \* "Flipper NFC"
    <<123>>                                         \* "{"
}

MainFiles ==
    {[decodable |-> FALSE, lines |-> <<>>, json |-> NotJson, raw |-> <<>>],
     NoFile}
    \cup {[decodable |-> TRUE, lines |-> <<l>>, json |-> NotJson, raw |-> <<>>] :
            l \in FirstLines}

InitMain ==
    /\ pc = "main"
    /\ args \in [format : Formats, filepath : Paths]
    /\ file \in MainFiles
    /\ fmt = NoFormat
    /\ invoked = <<>>
    /\ header = EmptyDict
    /\ blocks = EmptyDict
    /\ n = 0
    /\ colors_map = EmptyDict
    /\ filament_type = None
    /\ out = <<>>
    /\ exc = ""

NextMain == TakeOverride \/ SniffFirstLine \/ SelectByExtension \/ Dispatch

SpecMain == InitMain /\ [][NextMain]_vars

---------------------------------------------------------------------------
(* int(s) and int(s, 16) *)

IsDecDigit(c) == c >= 48 /\ c <= 57
IsHexDigit(c) == IsDecDigit(c) \/ (c >= 65 /\ c <= 70) \/ (c >= 97 /\ c <= 102)
DigitVal(c) == IF IsDecDigit(c) THEN c - 48 ELSE IF c >= 97 THEN c - 87 ELSE c - 55
IsDigitOf(base, c) == IF base = 16 THEN IsHexDigit(c) ELSE IsDecDigit(c)

\* the value of a digit string that may hold underscores between digits
DigitsValue(s, base) ==
    LET acc[k \in 0..Len(s)] ==
            IF k = 0 THEN 0
            ELSE IF s[k] = 95 THEN acc[k - 1]
            ELSE acc[k - 1] * base + DigitVal(s[k])
    IN  acc[Len(s)]

\* digits, single underscores allowed between two digits only
WellFormedDigits(s, base) ==
    /\ s # <<>>
    /\ \A k \in 1..Len(s) : IsDigitOf(base, s[k]) \/ s[k] = 95
    /\ s[1] # 95
    /\ s[Len(s)] # 95
    /\ \A k \in 1..(Len(s) - 1) : ~(s[k] = 95 /\ s[k + 1] = 95)

\* the digits of int(s, base), after sign and prefix
ParseDigits(w, base, neg) ==
    IF WellFormedDigits(w, base)
    THEN Ok(IF neg THEN 0 - DigitsValue(w, base) ELSE DigitsValue(w, base))
    ELSE Raise("ValueError")

\* base 16 allows a 0x or 0X prefix
HasPrefix(u, base) == base = 16 /\ Len(u) >= 2 /\ u[1] = 48 /\ u[2] \in {120, 88}

\* one underscore may follow the prefix
SkipUnderscore(v) == IF v # <<>> /\ v[1] = 95 THEN Tail(v) ELSE v

ParseUnsigned(u, base, neg) ==
    IF HasPrefix(u, base) THEN ParseDigits(SkipUnderscore(SliceFrom(u, 2)), base, neg)
    ELSE ParseDigits(u, base, neg)

ParseSigned(t, base) ==
    IF t # <<>> /\ t[1] \in {43, 45} THEN ParseUnsigned(Tail(t), base, t[1] = 45)
    ELSE ParseUnsigned(t, base, FALSE)

\* int(s, base) for base 10 and 16: surrounding whitespace, a sign, for base 16
\* a 0x prefix (an underscore may follow it), then the digits
ParseInt(s, base) == ParseSigned(Strip(s), base)

---------------------------------------------------------------------------
(* parse_flipper_dump, lines 190-205 *)

BlockPrefix == <<66, 108, 111, 99, 107, 32>>         \* "Block "
UnknownToken == <<63, 63>>                           \* "??"
Colon == 58

\* s.split(":", 1) as <<before, after>>; <<s>> when s holds no colon
SplitColonOnce(s) ==
    LET k == Find(s, Colon)
    IN  IF k < 0 THEN <<s>> ELSE <<Slice(s, 0, k), SliceFrom(s, k + 1)>>

\* s.split(): the maximal runs of non-whitespace characters, in order
SplitWhitespace(s) ==
    LET IsWord(k) == k >= 1 /\ k <= Len(s) /\ s[k] \notin Whitespace
        starts == {k \in 1..Len(s) : IsWord(k) /\ ~IsWord(k - 1)}
        stops == {k \in 1..Len(s) : IsWord(k) /\ ~IsWord(k + 1)}
        Nth(S, j) == CHOOSE k \in S : Cardinality({x \in S : x <= k}) = j
    IN  [j \in 1..Cardinality(starts) |-> SubSeq(s, Nth(starts, j), Nth(stops, j))]

\* the length of the longest prefix of s made of decimal digits
DigitRun(s) ==
    LET nondig == {k \in 1..Len(s) : ~IsDecDigit(s[k])}
    IN  IF nondig = {} THEN Len(s) ELSE (CHOOSE k \in nondig : \A j \in nondig : k <= j) - 1

\* (\d+): (.+) on what follows "Block ", the digit run being d characters
MatchNumRest(after, d) ==
    IF d >= 1 /\ Len(after) >= d + 3 /\ after[d + 1] = Colon /\ after[d + 2] = 32
    THEN [ok |-> TRUE, num |-> Slice(after, 0, d), rest |-> SliceFrom(after, d + 2)]
    ELSE [ok |-> FALSE, num |-> <<>>, rest |-> <<>>]

\* re.match(r"Block (\d+): (.+)", line): [ok, num, rest] with the two groups
MatchBlockLine(line) ==
    IF StartsWith(line, BlockPrefix)
    THEN MatchNumRest(SliceFrom(line, Len(BlockPrefix)),
                      DigitRun(SliceFrom(line, Len(BlockPrefix))))
    ELSE [ok |-> FALSE, num |-> <<>>, rest |-> <<>>]

\* int(x, 16) if x != "??" else None, for one token
FlipperSlot(x) == IF x = UnknownToken THEN Ok(None) ELSE SomeResult(ParseInt(x, 16))

\* a list of results as the result of the list: the first failure raises
Collect(rs) ==
    IF \E k \in 1..Len(rs) : ~rs[k].ok THEN Raise("ValueError")
    ELSE Ok([k \in 1..Len(rs) |-> rs[k].val])

SlotsOfTokens(toks) == Collect([k \in 1..Len(toks) |-> FlipperSlot(toks[k])])

\* the list comprehension of lines 202-204
FlipperSlots(rest) == SlotsOfTokens(SplitWhitespace(rest))

\* IsHeaderLine without the test for "Block "
IsHeaderLine_AnyColon(line) == Contains(line, <<Colon>>)

\* line 195: the condition of the header branch
IsHeaderLine(line) == Contains(line, <<Colon>>) /\ ~StartsWith(line, BlockPrefix)

StoreHeader(h, kv) == Put(h, Strip(kv[1]), Strip(kv[2]))

\* lines 195-197 on the stripped line
FlipperHeader(h, line) ==
    IF IsHeaderLine(line) THEN StoreHeader(h, SplitColonOnce(line)) ELSE h

\* lines 201-204
StoreSlots(b, num, slots) == IF slots.ok THEN Ok(Put(b, num, slots.val)) ELSE slots

\* lines 199-204
StoreMatch(b, m) ==
    IF m.ok THEN StoreSlots(b, ParseInt(m.num, 10).val, FlipperSlots(m.rest)) ELSE Ok(b)

\* lines 198-204 on the stripped line
FlipperBlocks(b, line) ==
    IF StartsWith(line, BlockPrefix) THEN StoreMatch(b, MatchBlockLine(line)) ELSE Ok(b)

\* line 192-193: reading a file that is not text
FlipperDecodeError ==
    /\ pc = "flipper"
    /\ ~file.decodable
    /\ pc' = "crashed"
    /\ exc' = "UnicodeDecodeError"
    /\ UNCHANGED <<args, file, fmt, invoked, header, blocks, n, colors_map,
                   filament_type, out>>

\* the effect of one line: the new header, the new blocks or the exception
FlipperApply(h, b) ==
    /\ header' = h
    /\ blocks' = IF b.ok THEN b.val ELSE blocks
    /\ pc' = IF b.ok THEN "flipper" ELSE "crashed"
    /\ exc' = b.exc

\* lines 193-204: one iteration of the loop over the lines
FlipperLine ==
    /\ pc = "flipper"
    /\ file.decodable
    /\ n < Len(file.lines)
    /\ FlipperApply(FlipperHeader(header, Strip(file.lines[n + 1])),
                    FlipperBlocks(blocks, Strip(file.lines[n + 1])))
    /\ n' = n + 1
    /\ UNCHANGED <<args, file, fmt, invoked, colors_map, filament_type, out>>

\* line 205
FlipperReturn ==
    /\ pc = "flipper"
    /\ file.decodable
    /\ n = Len(file.lines)
    /\ pc' = "print"
    /\ UNCHANGED <<args, file, fmt, invoked, header, blocks, n, colors_map,
                   filament_type, out, exc>>

---------------------------------------------------------------------------
(* parse_proxmark_dump, lines 208-246 *)

BlockSize == 16

\* ":".join(uid[i : i + 2] for i in range(0, len(uid), 2)), lines 221-223
JoinPairs(uid) ==
    LET cnt == (Len(uid) + 1) \div 2
        \* the character at 0-based position p of the joined string
        At(p) == IF p % 3 = 2 THEN Colon ELSE uid[2 * (p \div 3) + (p % 3) + 1]
    IN  IF cnt = 0 THEN <<>> ELSE [p \in 1..(Len(uid) + cnt - 1) |-> At(p - 1)]

KeyUID == <<85, 73, 68>>          \* "UID"
KeyATQA == <<65, 84, 81, 65>>     \* "ATQA"
KeySAK == <<83, 65, 75>>          \* "SAK"
KeyType == <<77, 105, 102, 97, 114, 101, 32, 67, 108, 97, 115, 115, 105, 99,
             32, 116, 121, 112, 101>>                \* "Mifare Classic type"

\* lines 218-227: the keys UID, ATQA and SAK of Card, UID re-joined
ProxmarkHeader(card) ==
    [k \in (DOMAIN card) \cap {KeyUID, KeyATQA, KeySAK} |->
        IF k = KeyUID THEN JoinPairs(card[k]) ELSE card[k]]

\* the list comprehension of lines 233-235
HexPairs(hexstr) ==
    Collect([k \in 1..((Len(hexstr) + 1) \div 2) |->
                SomeResult(ParseInt(Slice(hexstr, 2 * (k - 1), 2 * k), 16))])

\* lines 231-235
StoreEntry(b, num, slots) == IF num.ok /\ slots.ok THEN Put(b, num.val, slots.val) ELSE b

\* lines 230-237: one entry of data["blocks"]
ProxmarkPut(b, num_str, hexstr) == StoreEntry(b, ParseInt(num_str, 10), HexPairs(hexstr))

\* list(part), line 245
ListOfBytes(part) == [k \in 1..Len(part) |-> Some(part[k])]

\* raw[i * 16 : (i + 1) * 16] as a list, line 245
RawChunk(raw, i) == ListOfBytes(Slice(raw, i * BlockSize, (i + 1) * BlockSize))

\* RawChunkCount with the count rounded up
RawChunkCount_RoundUp(raw) == (Len(raw) + BlockSize - 1) \div BlockSize

\* range(len(raw) // 16), line 244
RawChunkCount(raw) == Len(raw) \div BlockSize

\* lines 214-228 and 239-243: json.load and what follows it
ProxmarkLoad ==
    /\ pc = "proxmark"
    /\ n' = 0
    /\ blocks' = EmptyDict
    /\ IF ~file.decodable \/ file.json.kind = "invalid"
       THEN /\ pc' = "proxmark_raw"
            /\ UNCHANGED <<header, exc>>
       ELSE IF file.json.kind # "object"
       THEN /\ pc' = "crashed"
            /\ exc' = "AttributeError"
            /\ UNCHANGED header
       ELSE /\ pc' = "proxmark_json"
            /\ header' = ProxmarkHeader(file.json.Card)
            /\ UNCHANGED exc
    /\ UNCHANGED <<args, file, fmt, invoked, colors_map, filament_type, out>>

\* lines 229-237: one iteration of the loop over the entries
ProxmarkEntry ==
    /\ pc = "proxmark_json"
    /\ n < Len(file.json.blocks)
    /\ blocks' = ProxmarkPut(blocks, file.json.blocks[n + 1][1],
                             file.json.blocks[n + 1][2])
    /\ n' = n + 1
    /\ UNCHANGED <<pc, args, file, fmt, invoked, header, colors_map,
                   filament_type, out, exc>>

\* line 238
ProxmarkJsonReturn ==
    /\ pc = "proxmark_json"
    /\ n = Len(file.json.blocks)
    /\ pc' = "print"
    /\ UNCHANGED <<args, file, fmt, invoked, header, blocks, n, colors_map,
                   filament_type, out, exc>>

\* lines 244-245: one iteration of the loop over the chunks
ProxmarkRawChunk ==
    /\ pc = "proxmark_raw"
    /\ n < RawChunkCount(file.raw)
    /\ blocks' = Put(blocks, n, RawChunk(file.raw, n))
    /\ n' = n + 1
    /\ UNCHANGED <<pc, args, file, fmt, invoked, header, colors_map,
                   filament_type, out, exc>>

\* line 246
ProxmarkRawReturn ==
    /\ pc = "proxmark_raw"
    /\ n = RawChunkCount(file.raw)
    /\ header' = EmptyDict
    /\ pc' = "print"
    /\ UNCHANGED <<args, file, fmt, invoked, blocks, n, colors_map,
                   filament_type, out, exc>>

---------------------------------------------------------------------------
(* print_parsed: helpers, lines 12-17 and the conversions of lines 38-174 *)

\* a | b on Python integers (two's complement of unbounded width)
RECURSIVE BitOr(_, _)
BitOr(a, b) ==
    IF a = 0 THEN b
    ELSE IF b = 0 THEN a
    ELSE IF a = -1 \/ b = -1 THEN -1
    ELSE 2 * BitOr(a \div 2, b \div 2) + (IF a % 2 = 1 \/ b % 2 = 1 THEN 1 ELSE 0)

\* le_uint16, lines 12-13: bytes_[0] | (bytes_[1] << 8)
le_uint16(bytes_) ==
    IF Len(bytes_) < 2 THEN Raise("IndexError")
    ELSE IF bytes_[2] = None \/ bytes_[1] = None THEN Raise("TypeError")
    ELSE Ok(BitOr(bytes_[1][1], bytes_[2][1] * 256))

\* the first slot bytes() cannot take, 0 when there is none
FirstBad(slots) ==
    LET bad == {k \in 1..Len(slots) : slots[k] = None \/ slots[k][1] \notin 0..255}
    IN  IF bad = {} THEN 0 ELSE CHOOSE k \in bad : \A j \in bad : k <= j

\* bytes(slots)
ToBytes(slots) ==
    IF FirstBad(slots) = 0 THEN Ok([k \in 1..Len(slots) |-> slots[k][1]])
    ELSE IF slots[FirstBad(slots)] = None THEN Raise("TypeError")
    ELSE Raise("ValueError")

\* the IEEE 754 binary32 value of four little-endian bytes, as its three fields
Float32(b) ==
    [sign |-> b[4] \div 128,
     exponent |-> 2 * (b[4] % 128) + b[3] \div 128,
     fraction |-> 65536 * (b[3] % 128) + 256 * b[2] + b[1]]

\* struct.unpack("<f", b)[0]
Unpack(b) ==
    IF ~b.ok THEN b
    ELSE IF Len(b.val) # 4 THEN Raise("struct.error")
    ELSE Ok(Float32(b.val))

\* le_float, lines 16-17
le_float(bytes_) == Unpack(ToBytes(bytes_))

HexChar(d) == IF d < 10 THEN 48 + d ELSE 55 + d

RECURSIVE HexDigitsOf(_)
HexDigitsOf(m) ==
    IF m < 16 THEN <<HexChar(m)>> ELSE Append(HexDigitsOf(m \div 16), HexChar(m % 16))

ZeroPad(ds, width) == [k \in 1..Max(0, width - Len(ds)) |-> 48] \o ds

\* f"{v:0<width>X}" for an integer v
FormatHex(v, width) ==
    IF v < 0 THEN <<45>> \o ZeroPad(HexDigitsOf(0 - v), width - 1)
    ELSE ZeroPad(HexDigitsOf(v), width)

\* f"{slot:02X}" for a slot of a block
FormatSlot(slot) == IF slot = None THEN Raise("TypeError") ELSE Ok(FormatHex(slot[1], 2))

\* "".join(rs) for results rs, the first failure raising
JoinResults(rs) ==
    LET bad == {k \in 1..Len(rs) : ~rs[k].ok}
        cat[k \in 0..Len(rs)] == IF k = 0 THEN <<>> ELSE cat[k - 1] \o rs[k].val
    IN  IF bad = {} THEN Ok(cat[Len(rs)])
        ELSE rs[CHOOSE k \in bad : \A j \in bad : k <= j]

\* "".join(f"{b[i]:02X}" for i in range(lo, hi)), lines 38-39
HexOfRange(b, lo, hi) ==
    JoinResults([k \in 1..(hi - lo) |->
                    IF lo + k > Len(b) THEN Raise("IndexError") ELSE FormatSlot(b[lo + k])])

\* "".join(f"{b:02X}" for b in part), line 103
HexOfSlots(part) == JoinResults([k \in 1..Len(part) |-> FormatSlot(part[k])])

\* sep.join(strs)
Join(strs, sep) ==
    LET cat[k \in 0..Len(strs)] ==
            IF k = 0 THEN <<>>
            ELSE IF k = 1 THEN strs[1]
            ELSE cat[k - 1] \o sep \o strs[k]
    IN  cat[Len(strs)]

IsKnown(slot) == slot # None
SlotHex(slot) == FormatHex(slot[1], 2)
HexEach(known) == [k \in 1..Len(known) |-> SlotHex(known[k])]

\* " ".join(f"{byte:02X}" for byte in b9 if byte is not None), line 111
TrayUid(b9) == Join(HexEach(SelectSeq(b9, IsKnown)), <<32>>)

\* b[i] or 0
OrZero(slot) == IF slot = None THEN 0 ELSE slot[1]

\* (b[i] or 0 for i in range(lo, hi)), unpacked: lines 67 and 173
OrZeroRange(b, lo, hi) ==
    IF Len(b) < hi THEN Raise("IndexError")
    ELSE Ok([k \in 1..(hi - lo) |-> OrZero(b[lo + k])])

\* "".join(f"{v:02X}" for v in vs), lines 68 and 174
HexOfInts(vs) == Join([k \in 1..Len(vs) |-> FormatHex(vs[k], 2)], <<>>)

\* the key a lookup would use if the alpha digits were left on
RgbHex_Full(rgba_hex) == rgba_hex

\* rgba_hex[:6], lines 69 and 175
RgbHex(rgba_hex) == Slice(rgba_hex, 0, 6)

\* bs.rstrip(b"\x00") and s.rstrip("\x00")
RStripNul(bs) ==
    LET keep == {k \in 1..Len(bs) : bs[k] # 0}
    IN  IF keep = {} THEN <<>>
        ELSE SubSeq(bs, 1, CHOOSE k \in keep : \A j \in keep : j <= k)

IsAscii(c) == c < 128

\* bs.decode("ascii", errors="ignore")
DecodeAscii(bs) == SelectSeq(bs, IsAscii)

StripThenDecode(b) == IF b.ok THEN Ok(DecodeAscii(RStripNul(b.val))) ELSE b
DecodeThenStrip(b) == IF b.ok THEN Ok(RStripNul(DecodeAscii(b.val))) ELSE b

\* bytes(slots).rstrip(b"\x00").decode("ascii", errors="ignore"): lines 46-60
AsciiField(slots) == StripThenDecode(ToBytes(slots))

\* bytes(slots).decode("ascii", errors="ignore").rstrip("\x00"): lines 123, 137
DateString(slots) == DecodeThenStrip(ToBytes(slots))

\* colors_map[filament_type].get(key) behind the test of lines 74 and 180:
\* <<info>> when found, <<>> when not
ColorInfo(cm, ft, key) ==
    IF ft # <<>> /\ ft \in DOMAIN cm /\ key \in DOMAIN cm[ft] THEN <<cm[ft][key]>>
    ELSE <<>>

\* blocks.get(k) is a non-empty list
Present(b, k) == k \in DOMAIN b /\ b[k] # <<>>

\* one printed line: the block, the label and the value shown
Line(b, f, v) == [block |-> b, field |-> f, value |-> v]

\* the first failure among results, or Ok(lines) when there is none
Guarded(rs, lines) ==
    LET bad == {k \in 1..Len(rs) : ~rs[k].ok}
    IN  IF bad = {} THEN Ok(lines) ELSE rs[CHOOSE k \in bad : \A j \in bad : k <= j]

---------------------------------------------------------------------------
(* datetime.strptime for the directives of lines 126-154 *)

DaysInMonth(year, month) ==
    IF month = 2
    THEN (IF year % 4 = 0 /\ (year % 100 # 0 \/ year % 400 = 0) THEN 29 ELSE 28)
    ELSE IF month \in {4, 6, 9, 11} THEN 30 ELSE 31

\* the characters p .. p+c-1 (0-based) of s exist and are decimal digits
DigitsAt(s, p, c) == p + c <= Len(s) /\ \A k \in 1..c : IsDecDigit(s[p + k])

\* the number written by the two digits at p
Num2(s, p) == 10 * (s[p + 1] - 48) + (s[p + 2] - 48)

TwoDigits(s, p, lo, hi) ==
    IF DigitsAt(s, p, 2) /\ Num2(s, p) >= lo /\ Num2(s, p) <= hi THEN <<2>> ELSE <<>>
OneDigit(s, p, lo) ==
    IF DigitsAt(s, p, 1) /\ s[p + 1] - 48 >= lo THEN <<1>> ELSE <<>>
SpaceDigit(s, p) ==
    IF p + 2 <= Len(s) /\ s[p + 1] = 32 /\ s[p + 2] >= 49 /\ s[p + 2] <= 57
    THEN <<2>> ELSE <<>>

\* the lengths one item of a format can match at p, in the order the regular
\* expression of the directive tries its alternatives
Candidates(item, s, p) ==
    CASE item = "Y" -> IF DigitsAt(s, p, 4) THEN <<4>> ELSE <<>>
      [] item = "y" -> IF DigitsAt(s, p, 2) THEN <<2>> ELSE <<>>
      [] item = "m" -> TwoDigits(s, p, 1, 12) \o OneDigit(s, p, 1)
      [] item = "d" -> TwoDigits(s, p, 1, 31) \o OneDigit(s, p, 1) \o SpaceDigit(s, p)
      [] item = "H" -> TwoDigits(s, p, 0, 23) \o OneDigit(s, p, 0)
      [] item = "M" -> TwoDigits(s, p, 0, 59) \o OneDigit(s, p, 0)
      [] OTHER -> IF p < Len(s) /\ s[p + 1] = 95 THEN <<1>> ELSE <<>>

\* the first match of the format's regular expression at the start of s, by
\* backtracking: the lengths matched by the items, or no match
RegexMatch(format, s) ==
    LET M[k \in 1..(Len(format) + 1), p \in 0..Len(s)] ==
            IF k > Len(format) THEN [ok |-> TRUE, lens |-> <<>>]
            ELSE LET cs == Candidates(format[k], s, p)
                     good == {i \in 1..Len(cs) : M[k + 1, p + cs[i]].ok}
                     first == CHOOSE i \in good : \A j \in good : i <= j
                 IN  IF good = {} THEN [ok |-> FALSE, lens |-> <<>>]
                     ELSE [ok |-> TRUE,
                           lens |-> <<cs[first]>> \o M[k + 1, p + cs[first]].lens]
    IN  M[1, 0]

\* the text each item matched
Groups(s, lens) ==
    LET off[k \in 0..Len(lens)] == IF k = 0 THEN 0 ELSE off[k - 1] + lens[k]
    IN  [k \in 1..Len(lens) |-> Slice(s, off[k - 1], off[k])]

Total(lens) ==
    LET sum[k \in 0..Len(lens)] == IF k = 0 THEN 0 ELSE sum[k - 1] + lens[k]
    IN  sum[Len(lens)]

\* int() of the group of a directive, or the default when the format lacks it
GroupValue(format, groups, item, default) ==
    IF \E k \in 1..Len(format) : format[k] = item
    THEN ParseInt(groups[CHOOSE k \in 1..Len(format) : format[k] = item], 10).val
    ELSE default

Century(y) == IF y < 0 THEN y ELSE IF y < 69 THEN 2000 + y ELSE 1900 + y

DateRecord(y, m, d, hh, mm) ==
    IF y < 1 \/ d > DaysInMonth(y, m) THEN Raise("ValueError")
    ELSE Ok([year |-> y, month |-> m, day |-> d, hour |-> hh, minute |-> mm])

DateOfGroups(format, g) ==
    DateRecord(GroupValue(format, g, "Y", Century(GroupValue(format, g, "y", -1))),
               GroupValue(format, g, "m", 1),
               GroupValue(format, g, "d", 1),
               GroupValue(format, g, "H", 0),
               GroupValue(format, g, "M", 0))

DateOfMatch(format, s, m) ==
    IF ~m.ok \/ Total(m.lens) # Len(s) THEN Raise("ValueError")
    ELSE DateOfGroups(format, Groups(s, m.lens))

\* datetime.strptime(s, format)
Strptime(s, format) == DateOfMatch(format, s, RegexMatch(format, s))

FormatLong == <<"Y", "_", "m", "_", "d", "_", "H", "_", "M">>   \* "%Y_%m_%d_%H_%M"
FormatShort3 == <<"y", "_", "m", "_", "d">>                      \* "%y_%m_%d"
FormatShort4 == <<"y", "_", "m", "_", "d", "_", "H">>            \* "%y_%m_%d_%H"
FormatCompact == <<"Y", "m", "d">>                               \* "%Y%m%d"

Underscore == 95

\* s.split(c) for a single character c
SplitOn(s, c) ==
    LET seps == {k \in 1..Len(s) : s[k] = c}
        Bound(j) == IF j = 0 THEN 0
                    ELSE IF j > Cardinality(seps) THEN Len(s) + 1
                    ELSE CHOOSE k \in seps : Cardinality({x \in seps : x <= k}) = j
    IN  [j \in 1..(Cardinality(seps) + 1) |-> SubSeq(s, Bound(j - 1) + 1, Bound(j) - 1)]

\* the number of separators taken for the number of parts
PartCount_Separators(s) == Len(SplitOn(s, Underscore)) - 1

\* len(raw_sp.split("_")), lines 142-148
PartCount(s) == Len(SplitOn(s, Underscore))

---------------------------------------------------------------------------
(* print_parsed, lines 25-187 *)

\* what a section prints, or the exception that ends the program
Emit(r, next) ==
    /\ out' = IF r.ok THEN out \o r.val ELSE out
    /\ pc' = IF r.ok THEN next ELSE "crashed"
    /\ exc' = r.exc

HeaderKeys == <<KeyUID, KeyATQA, KeySAK, KeyType>>

HeaderLine(k) == Line(-1, "Header", <<k, header[k]>>)
HasKey(k) == k \in DOMAIN header

\* lines 26-33
PrintHeader ==
    /\ pc = "print"
    /\ out' = out \o [k \in 1..Len(SelectSeq(HeaderKeys, HasKey)) |->
                        HeaderLine(SelectSeq(HeaderKeys, HasKey)[k])]
    /\ pc' = "b0"
    /\ UNCHANGED <<args, file, fmt, invoked, header, blocks, n, colors_map,
                   filament_type, exc>>

\* lines 38-41
Block0Of(rs) ==
    Guarded(rs, <<Line(0, "UID", rs[1].val), Line(0, "Manufacturer Data", rs[2].val)>>)
Block0Lines(b) == Block0Of(<<HexOfRange(b, 0, 4), HexOfRange(b, 4, 16)>>)

\* lines 46-48
Block1Of(rs) == Guarded(rs, <<Line(1, "Tray Info Index", <<rs[1].val, rs[2].val>>)>>)
Block1Lines(b) == Block1Of(<<AsciiField(Slice(b, 0, 8)), AsciiField(Slice(b, 8, 16))>>)

\* lines 53-54
Block2Of(rs) == Guarded(rs, <<Line(2, "Filament Type", rs[1].val)>>)
Block2Lines(b) == Block2Of(<<AsciiField(b)>>)

\* lines 60-62
Block4Of(rs) == Guarded(rs, <<Line(4, "Detailed Filament Type", rs[1].val)>>)
Block4Lines(b) == Block4Of(<<AsciiField(b)>>)

InfoLines(k, info, nameField, codeField) ==
    IF info = <<>> THEN <<>>
    ELSE <<Line(k, nameField, info[1].name), Line(k, codeField, info[1].code)>>

\* lines 72-82
Block5Print(rgba, weight, diameter, cm, ft) ==
    <<Line(5, "Color RGBA", HexOfInts(rgba))>>
    \o InfoLines(5, ColorInfo(cm, ft, RgbHex(HexOfInts(rgba))), "Color Name", "Color Code")
    \o <<Line(5, "Color Swatch", SubSeq(rgba, 1, 3)),
         Line(5, "Spool Weight", weight),
         Line(5, "Filament Diameter", diameter)>>

Block5Of(rs, cm, ft) ==
    Guarded(rs, Block5Print(rs[1].val, rs[2].val, rs[3].val, cm, ft))

\* lines 67-82
Block5Lines(b, cm, ft) ==
    Block5Of(<<OrZeroRange(b, 0, 4), le_uint16(Slice(b, 4, 6)), le_float(Slice(b, 8, 12))>>,
             cm, ft)

Block6Of(rs) ==
    Guarded(rs, <<Line(6, "Drying Temperature", rs[1].val),
                  Line(6, "Drying Time", rs[2].val),
                  Line(6, "Bed Temp Type", rs[3].val),
                  Line(6, "Bed Temperature", rs[4].val),
                  Line(6, "Hotend Max", rs[5].val),
                  Line(6, "Hotend Min", rs[6].val)>>)

\* lines 87-98
Block6Lines(b) ==
    Block6Of([k \in 1..6 |-> le_uint16(Slice(b, 2 * (k - 1), 2 * k))])

Block8Of(rs) ==
    Guarded(rs, <<Line(8, "X-Cam Info", rs[1].val),
                  Line(8, "Minimal Compatible Nozzle Diameter", rs[2].val)>>)

\* lines 103-106
Block8Lines(b) == Block8Of(<<HexOfSlots(Slice(b, 0, 12)), le_float(Slice(b, 12, 16))>>)

\* lines 111-112
Block9Lines(b) == Ok(<<Line(9, "Tray UID", TrayUid(b))>>)

\* sw / 100 and le_uint16(...) / 1000 as the fraction printed
Ratio(num, den) == [num |-> num, den |-> den]

Block10Of(rs) == Guarded(rs, <<Line(10, "Spool Width", Ratio(rs[1].val, 100))>>)

\* lines 117-118
Block10Lines(b) == Block10Of(<<le_uint16(Slice(b, 4, 6))>>)

ParsedLines(k, field, date) == IF date.ok THEN <<Line(k, field, date.val)>> ELSE <<>>

Block12Of(rs) ==
    Guarded(rs, <<Line(12, "Production DateTime (raw)", rs[1].val)>>
                \o ParsedLines(12, "Production DateTime (parsed)",
                               Strptime(rs[1].val, FormatLong)))

\* lines 123-132
Block12Lines(b) == Block12Of(<<DateString(b)>>)

\* lines 140-159: the lines the try block prints
ShortDateLines(raw_sp) ==
    IF Contains(raw_sp, <<Underscore>>)
    THEN IF PartCount(raw_sp) = 3
         THEN ParsedLines(13, "Short Production Date (parsed)",
                          Strptime(raw_sp, FormatShort3))
         ELSE IF PartCount(raw_sp) = 4
         THEN ParsedLines(13, "Short Production DateTime (parsed)",
                          Strptime(raw_sp, FormatShort4))
         ELSE <<>>
    ELSE ParsedLines(13, "Short Production Date (parsed)",
                     Strptime(raw_sp, FormatCompact))

Block13Of(rs) ==
    Guarded(rs, <<Line(13, "Short Production Date (raw)", rs[1].val)>>
                \o ShortDateLines(rs[1].val))

\* lines 137-160
Block13Lines(b) == Block13Of(<<DateString(b)>>)

Block14Of(rs) == Guarded(rs, <<Line(14, "Filament Length", Ratio(rs[1].val, 1000))>>)

\* lines 165-166
Block14Lines(b) == Block14Of(<<le_uint16(Slice(b, 4, 6))>>)

\* (r2, g2, b2, a2) from a2, b2, g2, r2: line 174
Reversed(abgr) == <<abgr[4], abgr[3], abgr[2], abgr[1]>>

\* lines 178-186
SecondColor(rgba2, cm, ft) ==
    <<Line(16, "Second Color RGBA", HexOfInts(rgba2))>>
    \o InfoLines(16, ColorInfo(cm, ft, RgbHex(HexOfInts(rgba2))),
                 "Second Color Name", "Second Color Code")
    \o <<Line(16, "Color Swatch", SubSeq(rgba2, 1, 3))>>

\* lines 176-186
Block16Print(fmt_id, color_count, rgba2, cm, ft) ==
    <<Line(16, "Format ID", FormatHex(fmt_id, 4)), Line(16, "Color Count", color_count)>>
    \o (IF color_count > 1 THEN SecondColor(rgba2, cm, ft) ELSE <<>>)

Block16Of(rs, cm, ft) ==
    Guarded(rs, Block16Print(rs[1].val, rs[2].val, Reversed(rs[3].val), cm, ft))

\* lines 171-186
Block16Lines(b, cm, ft) ==
    Block16Of(<<le_uint16(Slice(b, 0, 2)), le_uint16(Slice(b, 2, 4)),
                OrZeroRange(b, 4, 8)>>, cm, ft)

\* lines 36-41
PrintBlock0 ==
    /\ pc = "b0"
    /\ Emit(IF Present(blocks, 0) THEN Block0Lines(blocks[0]) ELSE Ok(<<>>), "b1")
    /\ UNCHANGED <<args, file, fmt, invoked, header, blocks, n, colors_map,
                   filament_type>>

\* lines 44-48
PrintBlock1 ==
    /\ pc = "b1"
    /\ Emit(IF Present(blocks, 1) THEN Block1Lines(blocks[1]) ELSE Ok(<<>>), "b2")
    /\ UNCHANGED <<args, file, fmt, invoked, header, blocks, n, colors_map,
                   filament_type>>

\* lines 51-54
PrintBlock2 ==
    /\ pc = "b2"
    /\ Emit(IF Present(blocks, 2) THEN Block2Lines(blocks[2]) ELSE Ok(<<>>), "b4")
    /\ UNCHANGED <<args, file, fmt, invoked, header, blocks, n, colors_map,
                   filament_type>>

\* filament_type after lines 57-61
TypeAfterBlock4(r) == IF r.ok THEN r.val[1].value ELSE <<>>

\* lines 57-62
PrintBlock4 ==
    /\ pc = "b4"
    /\ Emit(IF Present(blocks, 4) THEN Block4Lines(blocks[4]) ELSE Ok(<<>>), "b5")
    /\ filament_type' = IF Present(blocks, 4) THEN TypeAfterBlock4(Block4Lines(blocks[4]))
                        ELSE None
    /\ UNCHANGED <<args, file, fmt, invoked, header, blocks, n, colors_map>>

\* lines 65-82
PrintBlock5 ==
    /\ pc = "b5"
    /\ Emit(IF Present(blocks, 5) THEN Block5Lines(blocks[5], colors_map, filament_type) ELSE Ok(<<>>), "b6")
    /\ UNCHANGED <<args, file, fmt, invoked, header, blocks, n, colors_map,
                   filament_type>>

\* lines 85-98
PrintBlock6 ==
    /\ pc = "b6"
    /\ Emit(IF Present(blocks, 6) THEN Block6Lines(blocks[6]) ELSE Ok(<<>>), "b8")
    /\ UNCHANGED <<args, file, fmt, invoked, header, blocks, n, colors_map,
                   filament_type>>

\* lines 101-106
PrintBlock8 ==
    /\ pc = "b8"
    /\ Emit(IF Present(blocks, 8) THEN Block8Lines(blocks[8]) ELSE Ok(<<>>), "b9")
    /\ UNCHANGED <<args, file, fmt, invoked, header, blocks, n, colors_map,
                   filament_type>>

\* lines 109-112
PrintBlock9 ==
    /\ pc = "b9"
    /\ Emit(IF Present(blocks, 9) THEN Block9Lines(blocks[9]) ELSE Ok(<<>>), "b10")
    /\ UNCHANGED <<args, file, fmt, invoked, header, blocks, n, colors_map,
                   filament_type>>

\* lines 115-118
PrintBlock10 ==
    /\ pc = "b10"
    /\ Emit(IF Present(blocks, 10) THEN Block10Lines(blocks[10]) ELSE Ok(<<>>), "b12")
    /\ UNCHANGED <<args, file, fmt, invoked, header, blocks, n, colors_map,
                   filament_type>>

\* lines 121-132
PrintBlock12 ==
    /\ pc = "b12"
    /\ Emit(IF Present(blocks, 12) THEN Block12Lines(blocks[12]) ELSE Ok(<<>>), "b13")
    /\ UNCHANGED <<args, file, fmt, invoked, header, blocks, n, colors_map,
                   filament_type>>

\* lines 135-160
PrintBlock13 ==
    /\ pc = "b13"
    /\ Emit(IF Present(blocks, 13) THEN Block13Lines(blocks[13]) ELSE Ok(<<>>), "b14")
    /\ UNCHANGED <<args, file, fmt, invoked, header, blocks, n, colors_map,
                   filament_type>>

\* lines 163-166
PrintBlock14 ==
    /\ pc = "b14"
    /\ Emit(IF Present(blocks, 14) THEN Block14Lines(blocks[14]) ELSE Ok(<<>>), "b16")
    /\ UNCHANGED <<args, file, fmt, invoked, header, blocks, n, colors_map,
                   filament_type>>

\* lines 169-187
PrintBlock16 ==
    /\ pc = "b16"
    /\ Emit(IF Present(blocks, 16) THEN Block16Lines(blocks[16], colors_map, filament_type) ELSE Ok(<<>>), "done")
    /\ UNCHANGED <<args, file, fmt, invoked, header, blocks, n, colors_map,
                   filament_type>>

NextPrint ==
    \/ PrintHeader
    \/ PrintBlock0
    \/ PrintBlock1
    \/ PrintBlock2
    \/ PrintBlock4
    \/ PrintBlock5
    \/ PrintBlock6
    \/ PrintBlock8
    \/ PrintBlock9
    \/ PrintBlock10
    \/ PrintBlock12
    \/ PrintBlock13
    \/ PrintBlock14
    \/ PrintBlock16

---------------------------------------------------------------------------
(* the adapters on bounded dump files *)

MaxLines == 3
MaxEntries == 3
MaxRawLen == 34

SeqsUpTo(S, k) == UNION {[1..m -> S] : m \in 0..k}

L_Uid == <<85, 73, 68, 58, 32, 48, 52, 32, 65, 49>>             \* "UID: 04 A1"
L_Uid2 == <<85, 73, 68, 58, 32, 70, 70>>                        \* "UID: FF"
L_Block5 == <<66, 108, 111, 99, 107, 32, 53, 58, 32, 49, 50, 32, 63, 63, 32,
              70, 70>>                                          \* "Block 5: 12 ?? FF"
L_Block5b == <<66, 108, 111, 99, 107, 32, 53, 58, 32, 48, 97>>  \* "Block 5: 0a"
L_Block12 == <<66, 108, 111, 99, 107, 32, 49, 50, 58, 32, 49, 70, 70, 32,
               45, 49>>                                         \* "Block 12: 1FF -1"
L_BlockBad == <<66, 108, 111, 99, 107, 32, 48, 58, 32, 90, 90>> \* "Block 0: ZZ"
L_BlockX == <<66, 108, 111, 99, 107, 32, 120, 58, 32, 48, 48>>  \* "Block x: 00"
L_Sak == <<32, 32, 83, 65, 75, 32, 58, 32, 48, 56, 32, 58, 32, 120, 32>>
                                                                \* "  SAK : 08 : x "
L_Blocks == <<66, 108, 111, 99, 107, 115, 58, 32, 52>>          \* "Blocks: 4"
L_Plain == <<110, 111, 32, 99, 111, 108, 111, 110>>             \* "no colon"
L_Block9 == <<66, 108, 111, 99, 107, 32, 57, 58>>               \* "Block 9:"

FlipperLines == {L_Uid, L_Uid2, L_Block5, L_Block5b, L_Block12, L_BlockBad,
                 L_BlockX, L_Sak, L_Blocks, L_Plain, L_Block9}

FlipperFiles ==
    {[decodable |-> TRUE, lines |-> ls, json |-> NotJson, raw |-> <<>>] :
        ls \in SeqsUpTo(FlipperLines, MaxLines)}
    \cup {[decodable |-> FALSE, lines |-> <<>>, json |-> NotJson, raw |-> <<>>]}

K_0 == <<48>>                \* "0"
K_1 == <<49>>                \* "1"
K_x == <<120>>               \* "x"
K_2 == <<50>>                \* "2"
K_m3 == <<45, 51>>           \* "-3"
K_4 == <<52>>                \* "4"
K_5 == <<53>>                \* "5"
K_05 == <<48, 53>>           \* "05"
H_0A1b == <<48, 65, 49, 98>> \* "0A1b"
H_ABC == <<65, 66, 67>>      \* "ABC"
H_00 == <<48, 48>>           \* "00"
H_0G == <<48, 71>>           \* "0G"
H_m1 == <<45, 49>>           \* "-1"
H_FF == <<70, 70>>           \* "FF"

\* entries of a JSON dump's "blocks" object
JsonEntries == {<<K_0, H_0A1b>>, <<K_1, H_ABC>>, <<K_x, H_00>>, <<K_2, H_0G>>,
                <<K_m3, H_00>>, <<K_4, H_m1>>, <<K_5, <<>> >>, <<K_05, H_FF>>}

JsonCards == {
    EmptyDict,
    [k \in {KeyUID, KeyATQA, KeySAK, <<120>>} |->
        IF k = KeyUID THEN <<48, 52, 65, 49, 66, 50, 67, 51>>  \* "04A1B2C3"
        ELSE IF k = KeyATQA THEN <<48, 48, 48, 52>>            \* "0004"
        ELSE <<48, 56>>]                                       \* "08"
}

JsonFiles ==
    {[decodable |-> TRUE, lines |-> <<>>, raw |-> <<>>,
      json |-> [kind |-> "object", Card |-> c, blocks |-> es]] :
        c \in JsonCards,
        es \in {e \in SeqsUpTo(JsonEntries, MaxEntries) :
                    \A i, j \in 1..Len(e) : i # j => e[i][1] # e[j][1]}}
    \cup {[decodable |-> TRUE, lines |-> <<>>, raw |-> <<>>,
           json |-> [kind |-> "other", Card |-> EmptyDict, blocks |-> <<>>]]}

\* len bytes, byte k being (seed + k * step) mod 256
RawBytes(len, seed, step) == [k \in 1..len |-> (seed + (k - 1) * step) % 256]

RawFiles ==
    {[decodable |-> d, lines |-> <<>>, json |-> NotJson,
      raw |-> RawBytes(len, seed, step)] :
        d \in BOOLEAN, len \in 0..MaxRawLen, seed \in {0, 250}, step \in {1, 37}}

InitParse ==
    /\ \/ /\ fmt = "flipper"
          /\ pc = "flipper"
          /\ invoked = <<"parse_flipper_dump">>
          /\ file \in FlipperFiles
       \/ /\ fmt = "proxmark"
          /\ pc = "proxmark"
          /\ invoked = <<"parse_proxmark_dump">>
          /\ file \in JsonFiles \cup RawFiles
    /\ args = [format |-> fmt, filepath |-> <<100>>]
    /\ header = EmptyDict
    /\ blocks = EmptyDict
    /\ n = 0
    /\ colors_map = EmptyDict
    /\ filament_type = None
    /\ out = <<>>
    /\ exc = ""

NextParse ==
    \/ FlipperDecodeError
    \/ FlipperLine
    \/ FlipperReturn
    \/ ProxmarkLoad
    \/ ProxmarkEntry
    \/ ProxmarkJsonReturn
    \/ ProxmarkRawChunk
    \/ ProxmarkRawReturn

SpecParse == InitParse /\ [][NextParse]_vars

---------------------------------------------------------------------------
(* print_parsed on bounded BlockMaps *)

MaxTraySlots == 4
MaxDateParts == 4

Known(bs) == [k \in 1..Len(bs) |-> Some(bs[k])]
Pad16(bs) == bs \o [k \in 1..(BlockSize - Len(bs)) |-> 0]

T_PlaBasic == <<80, 76, 65, 32, 66, 97, 115, 105, 99>>       \* "PLA Basic"
T_Abs == <<65, 66, 83>>                                      \* "ABS"
Rgb_123456 == <<49, 50, 51, 52, 53, 54>>                     \* "123456"
Rgb_ABCDEF == <<65, 66, 67, 68, 69, 70>>                     \* "ABCDEF"
Rgb_Both == <<49, 50, 51, 52, 53, 54, 59, 65, 66, 67, 68, 69, 70>>
                                                             \* "123456;ABCDEF"

RecognizedBlocks == {0, 1, 2, 4, 5, 6, 8, 9, 10, 12, 13, 14, 16}

\* a complete dump of a two-colour spool
BaseBytes(k) ==
    CASE k = 0 -> <<4, 161, 178, 195, 52, 8, 4, 0, 3, 1, 2, 3, 4, 5, 6, 144>>
      [] k = 1 -> Pad16(<<65, 48, 48, 45, 75, 48, 0, 0, 71, 70, 65, 48, 48>>)
                                                   \* "A00-K0", "GFA00"
      [] k = 2 -> Pad16(<<80, 76, 65>>)            \* "PLA"
      [] k = 4 -> Pad16(T_PlaBasic)
      [] k = 5 -> <<18, 52, 86, 255, 232, 3, 0, 0, 0, 0, 224, 63, 0, 0, 0, 0>>
      [] k = 6 -> <<55, 0, 8, 0, 1, 0, 35, 0, 230, 0, 190, 0, 0, 0, 0, 0>>
      [] k = 8 -> <<136, 19, 136, 19, 232, 3, 232, 3, 154, 153, 25, 63, 205, 204, 76, 62>>
      [] k = 9 -> <<161, 162, 163, 164, 165, 166, 167, 168, 169, 170, 171, 172,
                    173, 174, 175, 10>>
      [] k = 10 -> <<0, 0, 0, 0, 154, 26, 0, 0, 0, 0, 0, 0, 0, 0, 0, 0>>
      [] k = 12 -> <<50, 48, 50, 52, 95, 48, 51, 95, 49, 53, 95, 49, 52, 95, 48, 55>>
                                                   \* "2024_03_15_14_07"
      [] k = 13 -> Pad16(<<50, 52, 95, 48, 51, 95, 49, 53, 95, 49, 52>>)
                                                   \* "24_03_15_14"
      [] k = 14 -> <<0, 0, 0, 0, 74, 1, 0, 0, 0, 0, 0, 0, 0, 0, 0, 0>>
      [] OTHER -> <<2, 0, 2, 0, 255, 239, 205, 171, 0, 0, 0, 0, 0, 0, 0, 0>>

BaseBlocks == [k \in RecognizedBlocks |-> Known(BaseBytes(k))]

\* the line "Block 5: 12 34 56 FF 64 00 ?? ?? ?? ?? 00 00 C8 42 00 00"
ExampleBlock5 ==
    <<Some(18), Some(52), Some(86), Some(255), Some(100), Some(0), None, None,
      None, None, Some(0), Some(0), Some(200), Some(66), Some(0), Some(0)>>

\* the dump with slot j of block k unreadable
WithUnknown(k, j) == [BaseBlocks EXCEPT ![k][j + 1] = None]

\* the dump with block k cut to its first len slots
Truncated(k, len) == [BaseBlocks EXCEPT ![k] = SubSeq(@, 1, len)]

UnknownMaps ==
    {WithUnknown(k, j) : k \in RecognizedBlocks, j \in 0..(BlockSize - 1)}
    \cup {[BaseBlocks EXCEPT ![5] = ExampleBlock5]}

ShortMaps == {Truncated(k, len) : k \in RecognizedBlocks, len \in 0..(BlockSize - 1)}

\* block 9 alone, of any slots the adapters can store
TraySlots == {None, Some(0), Some(171), Some(511), Some(-1)}
TrayMaps ==
    {[k \in {9} |-> b] : b \in SeqsUpTo(TraySlots, MaxTraySlots)}
    \cup {[k \in {9} |-> [j \in 1..BlockSize |->
                            IF j % m = 0 THEN None ELSE Some(BaseBytes(9)[j])]] :
            m \in 1..4}

\* block 13 alone, holding a date string
DateTokens == {<<50, 52>>, <<48, 51>>, <<49, 53>>, <<50>>, <<51, 49>>, <<>>}
                                                   \* "24" "03" "15" "2" "31" ""
DateExtras == {<<50, 48, 50, 52, 48, 51, 49, 53>>,      \* "20240315"
               <<103, 97, 114, 98, 97, 103, 101>>,      \* "garbage"
               <<50, 48, 50, 52, 51, 49, 53>>,          \* "2024315"
               <<50, 48, 50, 52, 48, 50, 51, 48>>,      \* "20240230"
               <<50, 52, 95, 48, 51, 95, 49, 53, 32>>,  \* "24_03_15 "
               <<50, 52, 95, 51, 95, 32, 53>>,          \* "24_3_ 5"
               <<50, 52, 95, 48, 51, 95, 49, 53, 200>>} \* "24_03_15" and byte C8
DateStrings ==
    {Join(parts, <<Underscore>>) :
        parts \in UNION {[1..m -> DateTokens] : m \in 1..MaxDateParts}}
    \cup DateExtras
DateMaps == {[k \in {13} |-> Known(Pad16(str))] : str \in DateStrings \ {<<>>}}

\* blocks 4, 5 and 16 of one- and two-colour spools
TypeBlocks == {Known(Pad16(T_PlaBasic)), Known(Pad16(T_Abs)), <<>>}
PrimaryBlocks ==
    {Known(<<r, 52, 86, 255, 232, 3, 0, 0, 0, 0, 224, 63, 0, 0, 0, 0>>) : r \in {18, 0}}
SecondBlocks ==
    {Known(<<2, 0, c, 0, 255, 239, 205, r, 0, 0, 0, 0, 0, 0, 0, 0>>) :
        c \in 0..2, r \in {171, 0}}
ColorBlockMaps ==
    {[k \in {4, 5, 16} |-> IF k = 4 THEN t ELSE IF k = 5 THEN p ELSE q] :
        t \in TypeBlocks, p \in PrimaryBlocks, q \in SecondBlocks}

\* colour tables: filament type -> colour key -> {name, code}
ColorEntry(key) ==
    IF key = Rgb_123456 THEN [name |-> "Orange", code |-> "10300"]
    ELSE IF key = Rgb_ABCDEF THEN [name |-> "Mist", code |-> "10900"]
    ELSE [name |-> "Orange / Mist", code |-> "13900"]
ColorTables ==
    {EmptyDict}
    \cup {[t \in {T_PlaBasic} |-> [key \in keys |-> ColorEntry(key)]] :
            keys \in SUBSET {Rgb_123456, Rgb_ABCDEF, Rgb_Both}}
FullTable ==
    [t \in {T_PlaBasic} |->
        [key \in {Rgb_123456, Rgb_ABCDEF, Rgb_Both} |-> ColorEntry(key)]]

SampleHeader ==
    [k \in {KeyUID, KeyType} |->
        IF k = KeyUID THEN <<48, 52, 32, 65, 49>>               \* "04 A1"
        ELSE <<67, 108, 97, 115, 115, 105, 99, 32, 49, 75>>]    \* "Classic 1K"

InitPrint ==
    /\ pc = "print"
    /\ \/ /\ blocks \in UnknownMaps \cup ShortMaps \cup TrayMaps \cup DateMaps
          /\ colors_map = FullTable
       \/ /\ blocks \in ColorBlockMaps
          /\ colors_map \in ColorTables
    /\ header = SampleHeader
    /\ fmt = "flipper"
    /\ invoked = <<"parse_flipper_dump">>
    /\ args = [format |-> NoFormat, filepath |-> <<100>>]
    /\ file = NoFile
    /\ n = 0
    /\ filament_type = None
    /\ out = <<>>
    /\ exc = ""

SpecPrint == InitPrint /\ [][NextPrint]_vars

---------------------------------------------------------------------------
(* Properties of format selection *)

C5_MarkerInFirstLine ==
    /\ file.decodable
    /\ file.lines # <<>>
    /\ \E k \in 1..(Len(file.lines[1]) - Len(FlipperMarker) + 1) :
          SubSeq(file.lines[1], k, k + Len(FlipperMarker) - 1) = FlipperMarker

\* the paths of Paths whose extension is .bin or .json in any letter case
C5_ProxmarkPaths == {
    <<100, 46, 98, 105, 110>>,                      \* "d.bin"
    <<100, 46, 106, 115, 111, 110>>,                \* "d.json"
    <<100, 46, 66, 73, 78>>,                        \* "d.BIN"
    <<100, 46, 74, 115, 111, 110>>,                 \* "d.Json"
    <<100, 46, 110, 102, 99, 46, 98, 105, 110>>     \* "d.nfc.bin"
}

C5_Expected ==
    IF args.format # NoFormat THEN args.format
    ELSE IF C5_MarkerInFirstLine THEN "flipper"
    ELSE IF args.filepath \in C5_ProxmarkPaths THEN "proxmark"
    ELSE "flipper"

\* C5: format selection follows the fixed priority override, Flipper marker
\* in the first line, extension .bin/.json, else the text parser; and exactly
\* one parser is invoked (none before the dispatch).
C5_FormatSelection ==
    IF pc \in {"flipper", "proxmark"}
    THEN /\ pc = C5_Expected
         /\ invoked = <<IF C5_Expected = "proxmark" THEN "parse_proxmark_dump"
                                                    ELSE "parse_flipper_dump">>
    ELSE invoked = <<>>

\* C5 witness: no override, the marker in the first line of a .bin file, and
\* the text parser invoked
C5_Witness ==
    /\ pc = "flipper"
    /\ args.format = NoFormat
    /\ C5_MarkerInFirstLine
    /\ args.filepath = <<100, 46, 98, 105, 110>>
    /\ invoked = <<"parse_flipper_dump">>

---------------------------------------------------------------------------
(* Properties of the adapters *)

FlipperReturned == pc = "print" /\ fmt = "flipper"
JsonReturned ==
    pc = "print" /\ fmt = "proxmark" /\ file.decodable /\ file.json.kind = "object"
RawReturned ==
    pc = "print" /\ fmt = "proxmark" /\ (~file.decodable \/ file.json.kind = "invalid")

C10_Line(k) == Strip(file.lines[k])
C10_IsBlockLine(k) == StartsWith(C10_Line(k), BlockPrefix)
C10_IsHeaderLine(k) == Find(C10_Line(k), Colon) >= 0 /\ ~C10_IsBlockLine(k)
C10_Key(k) == Strip(Slice(C10_Line(k), 0, Find(C10_Line(k), Colon)))
C10_Value(k) == Strip(SliceFrom(C10_Line(k), Find(C10_Line(k), Colon) + 1))
C10_Defines(k) == MatchBlockLine(C10_Line(k)).ok
C10_Index(k) == ParseInt(MatchBlockLine(C10_Line(k)).num, 10).val
C10_Token(t) == IF t = UnknownToken THEN None ELSE Some(ParseInt(t, 16).val)
C10_Tokens(k) ==
    LET toks == SplitWhitespace(MatchBlockLine(C10_Line(k)).rest)
    IN  [j \in 1..Len(toks) |-> C10_Token(toks[j])]
C10_Last(S) == CHOOSE k \in S : \A j \in S : j <= k

\* the header and the blocks the first m lines define, by last occurrence
C10_Header(m) ==
    LET hl == {k \in 1..m : C10_IsHeaderLine(k)}
    IN  [key \in {C10_Key(k) : k \in hl} |->
            C10_Value(C10_Last({k \in hl : C10_Key(k) = key}))]
C10_Blocks(m) ==
    LET bl == {k \in 1..m : C10_IsBlockLine(k) /\ C10_Defines(k)}
    IN  [num \in {C10_Index(k) : k \in bl} |->
            C10_Tokens(C10_Last({k \in bl : C10_Index(k) = num}))]

\* C10: every line is at most one of header line and block line (a line
\* starting with "Block " adds no header key, a line with a colon that does
\* not start with "Block " is split on its first colon and adds no block);
\* after the lines read so far, and so after the whole file, the header maps
\* each key to the value of its last occurrence and the blocks map each
\* index to the tokens of its last "Block N:" line, "??" as unknown and any
\* other token as its hex value.
C10_FlipperLastWins ==
    (pc = "flipper" \/ FlipperReturned) /\ file.decodable =>
        /\ header = C10_Header(n)
        /\ blocks = C10_Blocks(n)
        /\ n >= 1 /\ file.lines[n] = L_Block5 =>
              blocks[5] = <<Some(18), None, Some(255)>>
        /\ n >= 1 /\ file.lines[n] = L_Sak =>
              header[<<83, 65, 75>>] = <<48, 56, 32, 58, 32, 120>>
        /\ n >= 1 /\ file.lines[n] = L_Block5b => blocks[5] = <<Some(10)>>
        /\ FlipperReturned => n = Len(file.lines)

\* C10 witness: a returned parse in which a header key and a block index
\* were each written twice and a line starting with "Block " defined nothing
C10_Witness ==
    /\ FlipperReturned
    /\ file.lines = <<L_Uid, L_Uid2, L_BlockX>>
    /\ header[<<85, 73, 68>>] = <<70, 70>>
    /\ blocks = EmptyDict

\* C6: every BlockMap an adapter returns has only non-negative indices and
\* only slots that are unknown or an integer in 0..255, and unknown slots
\* occur in the text format only.
C6_SlotsAreBytes ==
    pc = "print" =>
        \A num \in DOMAIN blocks :
            /\ num >= 0
            /\ \A j \in 1..Len(blocks[num]) :
                  \/ blocks[num][j] = None /\ fmt = "flipper"
                  \/ /\ blocks[num][j] # None
                     /\ blocks[num][j][1] \in 0..255

C3_IsInteger(key) == ParseInt(key, 10).ok
C3_IsHex(hexstr) ==
    Len(hexstr) % 2 = 0 /\ \A j \in 1..Len(hexstr) : IsHexDigit(hexstr[j])
C3_WellFormed(e) == C3_IsInteger(e[1]) /\ C3_IsHex(e[2])
C3_Bytes(hexstr) ==
    [j \in 1..(Len(hexstr) \div 2) |->
        Some(16 * DigitVal(hexstr[2 * j - 1]) + DigitVal(hexstr[2 * j]))]
C3_Expected ==
    LET es == file.json.blocks
        wf == {k \in 1..Len(es) : C3_WellFormed(es[k])}
        Num(k) == ParseInt(es[k][1], 10).val
    IN  [num \in {Num(k) : k \in wf} |->
            C3_Bytes(es[C10_Last({k \in wf : Num(k) = num})][2])]

\* C3: the JSON path returns a BlockMap holding exactly the well-formed
\* entries (integer key, hex string of even length with hex digits only);
\* every other entry is skipped on its own, without an error and without a
\* partial block.
C3_OnlyWellFormedEntries ==
    /\ JsonReturned => blocks = C3_Expected
    /\ pc = "proxmark_json" => exc = ""

\* C8: for a source that is not text or not JSON, of n bytes, the raw
\* fallback returns an empty header and exactly floor(n/16) blocks, indexed
\* 0..floor(n/16)-1, block i holding bytes 16i..16i+15 in order; the last
\* n mod 16 bytes are dropped (33 bytes give blocks 0 and 1).
C8_RawChunks ==
    RawReturned =>
        /\ header = EmptyDict
        /\ DOMAIN blocks = 0..((Len(file.raw) \div 16) - 1)
        /\ \A i \in DOMAIN blocks :
              /\ Len(blocks[i]) = 16
              /\ \A j \in 0..15 : blocks[i][j + 1] = Some(file.raw[16 * i + j + 1])
        /\ Len(file.raw) = 33 => DOMAIN blocks = {0, 1}
        /\ exc = ""

\* C8 witness: a 33-byte source that is not text, returned as blocks 0 and 1
C8_Witness ==
    /\ RawReturned
    /\ ~file.decodable
    /\ Len(file.raw) = 33
    /\ DOMAIN blocks = {0, 1}
    /\ blocks[1][16] = Some(file.raw[32])

---------------------------------------------------------------------------
(* Properties of the block decoders *)

\* the lines print_parsed has printed for blocks, without the header lines
IsBlockLine(l) == l.block >= 0
BlockLinesOf(lines) == SelectSeq(lines, IsBlockLine)

DecodeOrder == <<0, 1, 2, 4, 5, 6, 8, 9, 10, 12, 13, 14, 16>>

\* the detailed filament type a map gives to the colour lookup
TypeOf(m) ==
    IF Present(m, 4) /\ Block4Lines(m[4]).ok THEN Block4Lines(m[4]).val[1].value ELSE None

SectionOf(m, k, cm) ==
    CASE k = 0 -> Block0Lines(m[k])
      [] k = 1 -> Block1Lines(m[k])
      [] k = 2 -> Block2Lines(m[k])
      [] k = 4 -> Block4Lines(m[k])
      [] k = 5 -> Block5Lines(m[k], cm, TypeOf(m))
      [] k = 6 -> Block6Lines(m[k])
      [] k = 8 -> Block8Lines(m[k])
      [] k = 9 -> Block9Lines(m[k])
      [] k = 10 -> Block10Lines(m[k])
      [] k = 12 -> Block12Lines(m[k])
      [] k = 13 -> Block13Lines(m[k])
      [] k = 14 -> Block14Lines(m[k])
      [] OTHER -> Block16Lines(m[k], cm, TypeOf(m))

FieldsOfBlock(m, k, cm) ==
    IF Present(m, k) /\ SectionOf(m, k, cm).ok THEN SectionOf(m, k, cm).val ELSE <<>>

\* the fields of every recognized block of m that decodes, in printing order
DecodedFields(m, cm) ==
    LET acc[i \in 0..Len(DecodeOrder)] ==
            IF i = 0 THEN <<>> ELSE acc[i - 1] \o FieldsOfBlock(m, DecodeOrder[i], cm)
    IN  acc[Len(DecodeOrder)]

\* the slots (0-based) of a block that le_uint16 or le_float reads
C1_DecoderSlots(k) ==
    CASE k = 5 -> {4, 5, 8, 9, 10, 11}
      [] k = 6 -> 0..11
      [] k = 8 -> 12..15
      [] k = 10 -> {4, 5}
      [] k = 14 -> {4, 5}
      [] k = 16 -> 0..3
      [] OTHER -> {}

C1_UnknownRead(k) ==
    {j \in C1_DecoderSlots(k) : blocks[k][j + 1] = None}

\* every block has its 16 slots and every unknown slot is one a decoder reads
C1_Applies ==
    /\ \A k \in DOMAIN blocks : Len(blocks[k]) = BlockSize
    /\ \A k \in DOMAIN blocks : \A j \in 0..(BlockSize - 1) :
          blocks[k][j + 1] = None => j \in C1_DecoderSlots(k)
    /\ \E k \in DOMAIN blocks : C1_UnknownRead(k) # {}

C1_Substituted ==
    [k \in DOMAIN blocks |->
        [j \in 1..Len(blocks[k]) |-> IF blocks[k][j] = None THEN Some(0) ELSE blocks[k][j]]]

\* C1: when a block of 16 slots has unknown slots among those an integer or
\* float decoder reads, decoding never ends in an error and the fields
\* produced are those computed with 0 in place of each unknown slot, the
\* fields of the remaining blocks included.
C1_UnknownAsZero ==
    C1_Applies =>
        /\ pc # "crashed"
        /\ pc = "done" => BlockLinesOf(out) = DecodedFields(C1_Substituted, colors_map)

\* the recognized blocks present with fewer than the 16 slots of the schema
C2_Short ==
    {k \in DOMAIN blocks \cap RecognizedBlocks : Len(blocks[k]) < BlockSize}

C2_Others == [k \in (DOMAIN blocks) \ C2_Short |-> blocks[k]]

C2_NoUnknown ==
    \A k \in DOMAIN blocks : \A j \in 1..Len(blocks[k]) :
        blocks[k][j] # None /\ blocks[k][j][1] \in 0..255

\* C2: when a recognized block is present with fewer slots than its schema
\* requires, decoding does not abort, that block's fields are omitted and every
\* other recognized block present still has its fields produced.
C2_ShortBlockLocal ==
    (C2_Short # {} /\ C2_NoUnknown) =>
        /\ pc # "crashed"
        /\ pc = "done" => BlockLinesOf(out) = DecodedFields(C2_Others, colors_map)

---------------------------------------------------------------------------
(* Properties of the colour lookup *)

C4_Hex2(v) == <<HexChar(v \div 16), HexChar(v % 16)>>
C4_Channel(slot) == IF slot = None THEN 0 ELSE slot[1]
C4_Rgb(b, i, j, k) ==
    C4_Hex2(C4_Channel(b[i])) \o C4_Hex2(C4_Channel(b[j])) \o C4_Hex2(C4_Channel(b[k]))

\* bytes 0-2 of block 5 are R, G, B; bytes 5-7 of block 16 are B, G, R
C4_Primary == C4_Rgb(blocks[5], 1, 2, 3)
C4_Secondary == C4_Rgb(blocks[16], 8, 7, 6)
C4_Composite == C4_Primary \o <<59>> \o C4_Secondary

C4_HasSecondary ==
    Present(blocks, 16) /\ blocks[16][3][1] + 256 * blocks[16][4][1] > 1

\* the colour table of the filament type, empty when the type key is missing
C4_Table ==
    IF filament_type # None /\ filament_type \in DOMAIN colors_map
    THEN colors_map[filament_type] ELSE EmptyDict

\* the values printed under a label of a block
C4_Shown(k, f) ==
    {out[i].value : i \in {j \in 1..Len(out) : out[j].block = k /\ out[j].field = f}}

C4_NameOf(key) == IF key \in DOMAIN C4_Table THEN {C4_Table[key].name} ELSE {}
C4_CodeOf(key) == IF key \in DOMAIN C4_Table THEN {C4_Table[key].code} ELSE {}

\* C4 as stated: with a secondary colour present the composite key
\* "<primaryRGB>;<secondaryRGB>" is tried before the bare primary RGB key, so
\* a table holding both keys gives the composite entry's name; the bare key is
\* used only when the composite key misses or there is no secondary colour.
C4_CompositeFirst ==
    (pc = "done" /\ Present(blocks, 5)) =>
        C4_Shown(5, "Color Name") =
            IF C4_HasSecondary /\ C4_Composite \in DOMAIN C4_Table
            THEN C4_NameOf(C4_Composite)
            ELSE C4_NameOf(C4_Primary)

\* C4 amended: the lookup uses bare RGB keys only. The primary colour's
\* name and code are those of the bare primary RGB key whether or not a
\* secondary colour is present, and with a colour count above 1 the second
\* colour's name and code are those of the bare secondary RGB key; a composite
\* key is never consulted.
C4_BareKeysOnly ==
    /\ (pc = "done" /\ Present(blocks, 5)) =>
          /\ C4_Shown(5, "Color Name") = C4_NameOf(C4_Primary)
          /\ C4_Shown(5, "Color Code") = C4_CodeOf(C4_Primary)
    /\ (pc = "done" /\ Present(blocks, 16)) =>
          /\ C4_Shown(16, "Second Color Name") =
                IF C4_HasSecondary THEN C4_NameOf(C4_Secondary) ELSE {}
          /\ C4_Shown(16, "Second Color Code") =
                IF C4_HasSecondary THEN C4_CodeOf(C4_Secondary) ELSE {}

\* C4 witness: a two-colour spool printed against a table that holds the
\* composite key and both bare keys, each colour named by its bare key
C4_Witness ==
    /\ pc = "done"
    /\ Present(blocks, 5)
    /\ C4_HasSecondary
    /\ {C4_Composite, C4_Primary, C4_Secondary} \subseteq DOMAIN C4_Table
    /\ C4_Shown(5, "Color Name") = {C4_Table[C4_Primary].name}
    /\ C4_Shown(16, "Second Color Name") = {C4_Table[C4_Secondary].name}
    /\ C4_Table[C4_Composite].name \notin C4_Shown(5, "Color Name")

---------------------------------------------------------------------------
(* Properties of the tray UID *)

C7_IsByteSlot(slot) == slot # None
C7_KnownSlots == SelectSeq(blocks[9], C7_IsByteSlot)
C7_Tokens(v) == IF v = <<>> THEN <<>> ELSE SplitOn(v, 32)
C7_UpperHex(c) == (c >= 48 /\ c <= 57) \/ (c >= 65 /\ c <= 70)
C7_HexValue(c) == IF c <= 57 THEN c - 48 ELSE c - 55

\* tok is the two-digit uppercase hex of the slot
C7_Renders(tok, slot) ==
    /\ Len(tok) = 2
    /\ C7_UpperHex(tok[1]) /\ C7_UpperHex(tok[2])
    /\ 16 * C7_HexValue(tok[1]) + C7_HexValue(tok[2]) = slot[1]

C7_Printed == {i \in 1..Len(out) : out[i].block = 9}

\* C7: for every block 9 present, the tray UID printed is the
\* space-separated two-digit uppercase hex of exactly the non-unknown slots in
\* their order: as many tokens as non-unknown slots, unknown slots omitted.
C7_TrayUidTokens ==
    (Present(blocks, 9) /\ pc \in {"b10", "b12", "b13", "b14", "b16", "done"}) =>
        /\ Cardinality(C7_Printed) = 1
        /\ \A i \in C7_Printed :
              /\ out[i].field = "Tray UID"
              /\ Len(C7_Tokens(out[i].value)) = Len(C7_KnownSlots)
              /\ \A t \in 1..Len(C7_KnownSlots) :
                    C7_Renders(C7_Tokens(out[i].value)[t], C7_KnownSlots[t])

---------------------------------------------------------------------------
(* Properties of the short production date *)

\* block 13 holds bytes only, so that it has a string
C9_HasString ==
    /\ Present(blocks, 13)
    /\ \A j \in 1..Len(blocks[13]) : blocks[13][j] # None /\ blocks[13][j][1] \in 0..255

C9_String == DateString(blocks[13]).val

C9_Underscores(s) == Cardinality({k \in 1..Len(s) : s[k] = 95})

\* the pattern the structure of s selects, if any
C9_Selected(s) ==
    IF C9_Underscores(s) = 0 THEN <<FormatCompact>>
    ELSE IF C9_Underscores(s) = 2 THEN <<FormatShort3>>
    ELSE IF C9_Underscores(s) = 3 THEN <<FormatShort4>>
    ELSE <<>>

C9_Label(s) ==
    IF C9_Underscores(s) = 3 THEN "Short Production DateTime (parsed)"
    ELSE "Short Production Date (parsed)"

C9_Parsed(s) ==
    IF C9_Selected(s) # <<>> /\ Strptime(s, C9_Selected(s)[1]).ok
    THEN <<Line(13, C9_Label(s), Strptime(s, C9_Selected(s)[1]).val)>>
    ELSE <<>>

C9_IsBlock13(l) == l.block = 13
C9_Lines == SelectSeq(out, C9_IsBlock13)
C9_After == pc \in {"b14", "b16", "done"}

C9_Date(y, m, d, hh) == [year |-> y, month |-> m, day |-> d, hour |-> hh, minute |-> 0]

\* the dates of "24_03_15", "24_03_15_14" and "20240315", and none for "garbage"
C9_Examples ==
    /\ C9_String = <<50, 52, 95, 48, 51, 95, 49, 53>> =>
          C9_Lines[2] = Line(13, "Short Production Date (parsed)", C9_Date(2024, 3, 15, 0))
    /\ C9_String = <<50, 52, 95, 48, 51, 95, 49, 53, 95, 49, 52>> =>
          C9_Lines[2] = Line(13, "Short Production DateTime (parsed)",
                             C9_Date(2024, 3, 15, 14))
    /\ C9_String = <<50, 48, 50, 52, 48, 51, 49, 53>> =>
          C9_Lines[2] = Line(13, "Short Production Date (parsed)", C9_Date(2024, 3, 15, 0))
    /\ C9_String = <<103, 97, 114, 98, 97, 103, 101>> => Len(C9_Lines) = 1

\* C9: for every block 13 string one date pattern is selected by
\* structure, or none: %y_%m_%d with exactly 3 underscore-separated parts,
\* %y_%m_%d_%H with exactly 4, none with any other number of parts, %Y%m%d
\* with no underscore. The raw string is always printed, a parsed date is
\* printed only when the selected pattern matched, and a failed parse is never
\* an error.
C9_DatePatternSelection ==
    /\ (C9_HasString /\ C9_After) =>
          /\ C9_Lines = <<Line(13, "Short Production Date (raw)", C9_String)>>
                        \o C9_Parsed(C9_String)
          /\ C9_Examples
    /\ (C9_HasString /\ DOMAIN blocks = {13}) => pc # "crashed"

\* C9 witness: a string of four parts printed with its date and hour, and
\* the block decoded to the end
C9_Witness ==
    /\ pc = "done"
    /\ C9_HasString
    /\ C9_Underscores(C9_String) = 3
    /\ Len(C9_Lines) = 2
    /\ C9_Lines[2].field = "Short Production DateTime (parsed)"
    /\ C9_Lines[2].value.hour = 2

===========================================================================
